---- MODULE Spec2Model ----
(***************************************************************************)
(* LVX log viewer (src/src/main.rs): the App state, the ingestion of a     *)
(* JSON-lines file, the filter and search recomputations, the search       *)
(* navigation and the per-frame order in which App::update runs them.      *)
(*                                                                         *)
(* Strings are sequences of one-character strings.  Option<T> is a         *)
(* sequence of length 0 (None) or 1 (Some).                                *)
(***************************************************************************)
EXTENDS Integers, Sequences, FiniteSets, TLC

VARIABLES
    app,        \* the App struct (main.rs 28-52), a record with its fields
    handled,    \* the handler of App::update run last in the current frame
    scrolled,   \* the row given to table.scroll_to_row by the last table pass
    panicked,   \* TRUE once a handler has panicked (the process is gone)
    user,       \* the session explored: which widgets the user operates
    file_read   \* what the last read of the picked file gave (None before
                \* the first read and when the open failed)

vars == <<app, handled, scrolled, panicked, user, file_read>>

(***************************************************************************)
(* Bounds of the model.                                                    *)
(***************************************************************************)
\* usize is modelled UsizeBits wide (the wrap of len() - 1 on an empty Vec).
UsizeBits == 8
\* Rows 0..MaxClickRow of the table are the ones the user clicks.
MaxClickRow == 1
\* The files of the ingesting session have at most MaxLines lines.
MaxLines == 2

UsizeMax == 2 ^ UsizeBits - 1

None == << >>
Some(x) == << x >>

(***************************************************************************)
(* Characters and strings.                                                 *)
(***************************************************************************)
\* The printable ASCII characters in code-point order, from 32 (space) on
\* (backslash, 92, and backtick, 96, are spelled out: no input uses them).
Printable ==
    << " ", "!", "\"", "#", "$", "%", "&", "'", "(", ")", "*", "+", ",", "-",
       ".", "/", "0", "1", "2", "3", "4", "5", "6", "7", "8", "9", ":", ";",
       "<", "=", ">", "?", "@", "A", "B", "C", "D", "E", "F", "G", "H", "I",
       "J", "K", "L", "M", "N", "O", "P", "Q", "R", "S", "T", "U", "V", "W",
       "X", "Y", "Z", "[", "backslash", "]", "^", "_", "backtick", "a", "b", "c", "d", "e",
       "f", "g", "h", "i", "j", "k", "l", "m", "n", "o", "p", "q", "r", "s",
       "t", "u", "v", "w", "x", "y", "z", "{", "|", "}", "~" >>

\* The code point of a character (the ordinal order of str and String).
CodeTable ==
    [c \in {Printable[i] : i \in 1..Len(Printable)} |->
        31 + (CHOOSE i \in 1..Len(Printable) : Printable[i] = c)]

Code(c) == CodeTable[c]

\* char::to_lowercase on ASCII: A..Z map to a..z, the rest is kept.
LowerChar(c) ==
    IF Code(c) >= 65 /\ Code(c) <= 90 THEN Printable[Code(c) + 32 - 31] ELSE c

\* str::to_lowercase
to_lowercase(s) == [i \in 1..Len(s) |-> LowerChar(s[i])]

\* str::contains(&str): needle occurs as a contiguous substring of hay.
contains(hay, needle) ==
    \E i \in 0..(Len(hay) - Len(needle)) :
        \A j \in 1..Len(needle) : hay[i + j] = needle[j]

\* The comparison the filter and the search use on each text column.
contains_lowercase(field, pattern) ==
    contains(to_lowercase(field), to_lowercase(pattern))

\* Ord for String: lexicographic by code point.
RECURSIVE StrLess(_, _)
StrLess(s, t) ==
    IF t = << >> THEN FALSE
    ELSE IF s = << >> THEN TRUE
    ELSE IF Code(Head(s)) # Code(Head(t)) THEN Code(Head(s)) < Code(Head(t))
    ELSE StrLess(Tail(s), Tail(t))

(***************************************************************************)
(* Level (main.rs 518-549).                                                *)
(***************************************************************************)
KnownLevels == {"Debug", "Info", "Warning", "Error", "Panic"}
Levels == KnownLevels \cup {"Unknown"}

\* Level::from_string: an exact, case-sensitive match of the five tokens.
Level_from_string_AnyCase(level) ==
    CASE to_lowercase(level) = <<"d", "e", "b", "u", "g">> -> "Debug"
      [] to_lowercase(level) = <<"i", "n", "f", "o">> -> "Info"
      [] to_lowercase(level) = <<"w", "a", "r", "n">> -> "Warning"
      [] to_lowercase(level) = <<"e", "r", "r", "o", "r">> -> "Error"
      [] to_lowercase(level) = <<"p", "a", "n", "i", "c">> -> "Panic"
      [] OTHER -> "Unknown"

Level_from_string(level) ==
    CASE level = <<"D", "E", "B", "U", "G">> -> "Debug"
      [] level = <<"I", "N", "F", "O">> -> "Info"
      [] level = <<"W", "A", "R", "N">> -> "Warning"
      [] level = <<"E", "R", "R", "O", "R">> -> "Error"
      [] level = <<"P", "A", "N", "I", "C">> -> "Panic"
      [] OTHER -> "Unknown"

(***************************************************************************)
(* Log::time_from_string (main.rs 562-570).  A DateTime is modelled by the *)
(* civil fields and the offset that were parsed; Default::default() is the *)
(* epoch.  The layout is "%Y-%m-%dT%H:%M:%S%.3f%z": the fraction is        *)
(* optional, the offset is a sign, two digits, an optional colon and two   *)
(* digits.  The fields are read at their full width (the zero-padded form  *)
(* every input here has); a second of 60 is taken as out of range.         *)
(***************************************************************************)
IsDigit(c) == Code(c) >= 48 /\ Code(c) <= 57

AllDigits(s, from, to) ==
    /\ to <= Len(s)
    /\ \A i \in from..to : IsDigit(s[i])

RECURSIVE Number(_, _, _)
Number(s, from, to) ==
    IF to < from THEN 0
    ELSE 10 * Number(s, from, to - 1) + (Code(s[to]) - 48)

DefaultTime ==
    [year |-> 1970, month |-> 1, day |-> 1, hour |-> 0, minute |-> 0,
     second |-> 0, milli |-> 0, offset |-> 0]

\* The index of the sign of the offset: right after the seconds, or after a
\* fraction of one to nine digits; 0 when there is none.
OffsetStart(s) ==
    IF Len(s) >= 20 /\ s[20] \in {"+", "-"} THEN 20
    ELSE IF Len(s) >= 20 /\ s[20] = "."
         THEN LET ends == {i \in 21..Len(s) :
                             /\ s[i] \in {"+", "-"}
                             /\ i - 21 >= 1 /\ i - 21 <= 9
                             /\ AllDigits(s, 21, i - 1)}
              IN  IF ends = {} THEN 0 ELSE CHOOSE i \in ends : TRUE
         ELSE 0

time_from_string(s) ==
    LET o == OffsetStart(s)
        colon == IF o > 0 /\ Len(s) >= o + 3 /\ s[o + 3] = ":" THEN 1 ELSE 0
        shape ==
            /\ Len(s) >= 20
            /\ AllDigits(s, 1, 4) /\ s[5] = "-" /\ AllDigits(s, 6, 7)
            /\ s[8] = "-" /\ AllDigits(s, 9, 10) /\ s[11] = "T"
            /\ AllDigits(s, 12, 13) /\ s[14] = ":" /\ AllDigits(s, 15, 16)
            /\ s[17] = ":" /\ AllDigits(s, 18, 19)
            /\ o > 0
            /\ Len(s) = o + 4 + colon
            /\ AllDigits(s, o + 1, o + 2)
            /\ AllDigits(s, o + 3 + colon, o + 4 + colon)
        frac == IF o > 21 THEN Number(s, 21, o - 1) ELSE 0
        digits == IF o > 21 THEN o - 21 ELSE 0
        t == [year |-> Number(s, 1, 4), month |-> Number(s, 6, 7),
              day |-> Number(s, 9, 10), hour |-> Number(s, 12, 13),
              minute |-> Number(s, 15, 16), second |-> Number(s, 18, 19),
              milli |-> IF digits = 0 THEN 0
                        ELSE IF digits <= 3 THEN frac * 10 ^ (3 - digits)
                        ELSE frac \div 10 ^ (digits - 3),
              offset |-> (IF s[o] = "-" THEN -1 ELSE 1)
                         * (60 * Number(s, o + 1, o + 2)
                            + Number(s, o + 3 + colon, o + 4 + colon))]
        inRange ==
            /\ t.month >= 1 /\ t.month <= 12
            /\ t.day >= 1 /\ t.day <= 31
            /\ t.hour <= 23 /\ t.minute <= 59 /\ t.second <= 59
            /\ Number(s, o + 3 + colon, o + 4 + colon) <= 59
    IN  IF shape /\ inRange THEN t ELSE DefaultTime

(***************************************************************************)
(* One line of the file after serde_json::from_str (main.rs 366): json is  *)
(* "invalid" when the text is not JSON, else the kind of the value; an     *)
(* object carries its members in textual order, each <<key, value>> with   *)
(* value = [t |-> kind, v |-> text] (the text of a string without quotes,  *)
(* the literal of a number).                                               *)
(***************************************************************************)
JString(s) == [t |-> "string", v |-> s]
JNumber(s) == [t |-> "number", v |-> s]
NotJson == [json |-> "invalid", members |-> << >>]
JsonArray == [json |-> "array", members |-> << >>]
JsonObject(members) == [json |-> "object", members |-> members]

KeyLevel == <<"l", "e", "v", "e", "l">>
KeyTs == <<"t", "s">>
KeyMsg == <<"m", "s", "g">>
KeyCaller == <<"c", "a", "l", "l", "e", "r">>

Keys(members) == {members[i][1] : i \in 1..Len(members)}

\* The value of a key: the last member of that name.
Member(members, key) ==
    LET at == {i \in 1..Len(members) : members[i][1] = key}
    IN  members[CHOOSE i \in at : \A j \in at : j <= i][2]

HasString(members, key) ==
    key \in Keys(members) /\ Member(members, key).t = "string"

\* serde_json::from_value::<JsonLine> (main.rs 367, 574-583) succeeds: the
\* value is an object, level, ts and msg are strings, caller is a string
\* when present.
IsJsonLine(line) ==
    /\ line.json = "object"
    /\ HasString(line.members, KeyLevel)
    /\ HasString(line.members, KeyTs)
    /\ HasString(line.members, KeyMsg)
    /\ KeyCaller \in Keys(line.members) => HasString(line.members, KeyCaller)

\* JsonLine.payload: the flattened rest, the keys that are not fields.
PayloadKeys(line) ==
    Keys(line.members) \ {KeyLevel, KeyTs, KeyMsg, KeyCaller}

\* keys.sort() (main.rs 370-371): the keys in ascending order.
RECURSIVE SortedKeys(_)
SortedKeys(keys) ==
    IF keys = {} THEN << >>
    ELSE LET least == CHOOSE k \in keys :
                          \A other \in keys \ {k} : StrLess(k, other)
         IN  <<least>> \o SortedKeys(keys \ {least})

\* serde_json::Value::to_string of a string or a number.
ValueText(value) ==
    IF value.t = "string" THEN <<"\"">> \o value.v \o <<"\"">> ELSE value.v

RECURSIVE ObjectBody(_, _)
ObjectBody(members, keys) ==
    IF keys = << >> THEN << >>
    ELSE <<"\"">> \o Head(keys) \o <<"\"", ":">>
         \o ValueText(Member(members, Head(keys)))
         \o (IF Len(keys) > 1 THEN <<",">> ELSE << >>)
         \o ObjectBody(members, Tail(keys))

NormalizedPayload_MemberOrder(line) ==
    IF PayloadKeys(line) = {} THEN << >>
    ELSE LET keys == [i \in 1..Len(line.members) |-> line.members[i][1]]
             extra(k) == k \in PayloadKeys(line)
         IN  <<"{">> \o ObjectBody(line.members, SelectSeq(keys, extra))
             \o <<"}">>

\* The payload column (main.rs 368-377): empty without extra keys, else the
\* compact text of the object rebuilt in sorted key order.
NormalizedPayload(line) ==
    IF PayloadKeys(line) = {} THEN << >>
    ELSE <<"{">> \o ObjectBody(line.members, SortedKeys(PayloadKeys(line)))
         \o <<"}">>

\* The Log pushed for a line that deserializes (main.rs 379-385).
LogOf(line) ==
    [time |-> time_from_string(Member(line.members, KeyTs).v),
     level |-> Level_from_string(Member(line.members, KeyLevel).v),
     message |-> Member(line.members, KeyMsg).v,
     payload |-> NormalizedPayload(line),
     caller |-> IF KeyCaller \in Keys(line.members)
                THEN Member(line.members, KeyCaller).v ELSE << >>]

ParseLines_StopAtBad(lines) ==
    LET bad == {i \in 1..Len(lines) : ~IsJsonLine(lines[i])}
        n == IF bad = {} THEN Len(lines)
             ELSE (CHOOSE i \in bad : \A j \in bad : i <= j) - 1
    IN  [i \in 1..n |-> LogOf(lines[i])]

\* The loop over the lines (main.rs 364-389): a line that does not
\* deserialize is skipped, the others are pushed in order.
RECURSIVE ParseLines(_)
ParseLines(lines) ==
    IF lines = << >> THEN << >>
    ELSE (IF IsJsonLine(Head(lines)) THEN <<LogOf(Head(lines))>> ELSE << >>)
         \o ParseLines(Tail(lines))

(***************************************************************************)
(* The inputs: the contents a picked file may have when it is read, the    *)
(* level buttons the user clicks and the texts the user types.             *)
(***************************************************************************)
File1 ==
    << JsonObject(<<<<<<"l", "e", "v", "e", "l">>, JString(<<"I", "N", "F", "O">>)>>,
         <<<<"t", "s">>, JString(<<"2", "0", "2", "4", "-", "0", "1", "-", "0", "2", "T", "1", "5", ":", "0", "4", ":", "0", "5", ".", "1", "2", "3", "+", "0", "0", ":", "0", "0">>)>>,
         <<<<"m", "s", "g">>, JString(<<"a", "b">>)>>,
         <<<<"x">>, JNumber(<<"1">>)>>,
         <<<<"a">>, JNumber(<<"2">>)>>,
         <<<<"c", "a", "l", "l", "e", "r">>, JString(<<"m">>)>>>>),
       JsonObject(<<<<<<"l", "e", "v", "e", "l">>, JString(<<"b", "o", "g", "u", "s">>)>>,
         <<<<"t", "s">>, JString(<<"n", "o", "t", "-", "a", "-", "d", "a", "t", "e">>)>>,
         <<<<"m", "s", "g">>, JString(<<"A">>)>>>>),
       NotJson,
       JsonObject(<<<<<<"m", "s", "g">>, JString(<<"a", "B">>)>>,
         <<<<"c", "a", "l", "l", "e", "r">>, JString(<<"M">>)>>,
         <<<<"t", "s">>, JString(<<"2", "0", "2", "4", "-", "0", "1", "-", "0", "2", "T", "1", "5", ":", "0", "4", ":", "0", "6", "+", "0", "1", "0", "0">>)>>,
         <<<<"l", "e", "v", "e", "l">>, JString(<<"E", "R", "R", "O", "R">>)>>>>),
       JsonArray,
       JsonObject(<<<<<<"l", "e", "v", "e", "l">>, JString(<<"D", "E", "B", "U", "G">>)>>,
         <<<<"t", "s">>, JString(<<"2", "0", "2", "4", "-", "0", "1", "-", "0", "2", "T", "1", "5", ":", "0", "4", ":", "0", "5", ".", "1", "2", "3", "+", "0", "0", ":", "0", "0">>)>>,
         <<<<"m", "s", "g">>, JString(<<"b">>)>>>>),
       JsonObject(<<<<<<"l", "e", "v", "e", "l">>, JString(<<"I", "N", "F", "O">>)>>,
         <<<<"t", "s">>, JString(<<"2", "0", "2", "4", "-", "0", "1", "-", "0", "2", "T", "1", "5", ":", "0", "4", ":", "0", "5", ".", "1", "2", "3", "+", "0", "0", ":", "0", "0">>)>>>>) >>

File2 ==
    << JsonObject(<<<<<<"l", "e", "v", "e", "l">>, JString(<<"W", "A", "R", "N">>)>>,
         <<<<"t", "s">>, JString(<<"2", "0", "2", "4", "-", "0", "1", "-", "0", "2", "T", "1", "5", ":", "0", "4", ":", "0", "5", ".", "1", "2", "3", "+", "0", "0", ":", "0", "0">>)>>,
         <<<<"m", "s", "g">>, JString(<<"a">>)>>>>),
       JsonObject(<<<<<<"l", "e", "v", "e", "l">>, JString(<<"P", "A", "N", "I", "C">>)>>,
         <<<<"t", "s">>, JString(<<"2", "0", "2", "4", "-", "0", "1", "-", "0", "2", "T", "1", "5", ":", "0", "4", ":", "0", "5", ".", "1", "2", "3", "+", "0", "0", ":", "0", "0">>)>>,
         <<<<"m", "s", "g">>, JString(<<"B", "a">>)>>,
         <<<<"x">>, JString(<<"2">>)>>,
         <<<<"c", "a", "l", "l", "e", "r">>, JString(<<"M", "x">>)>>>>),
       JsonObject(<<<<<<"l", "e", "v", "e", "l">>, JString(<<"I", "N", "F", "O">>)>>,
         <<<<"t", "s">>, JString(<<"2", "0", "2", "4", "-", "0", "1", "-", "0", "2", "T", "1", "5", ":", "0", "4", ":", "0", "5", ".", "1", "2", "3", "+", "0", "0", ":", "0", "0">>)>>,
         <<<<"m", "s", "g">>, JNumber(<<"1">>)>>>>),
       JsonObject(<<<<<<"l", "e", "v", "e", "l">>, JString(<<"i", "n", "f", "o">>)>>,
         <<<<"t", "s">>, JString(<<"2", "0", "2", "4", "-", "0", "1", "-", "0", "2", "T", "1", "5", ":", "0", "4", ":", "0", "5", ".", "1", "2", "3", "+", "0", "0", ":", "0", "0">>)>>,
         <<<<"m", "s", "g">>, JString(<<"a", "b">>)>>,
         <<<<"b">>, JNumber(<<"2">>)>>,
         <<<<"B">>, JNumber(<<"1">>)>>>>),
       JsonObject(<<<<<<"l", "e", "v", "e", "l">>, JString(<<"I", "N", "F", "O">>)>>,
         <<<<"t", "s">>, JString(<<"2", "0", "2", "4", "-", "0", "1", "-", "0", "2", "T", "1", "5", ":", "0", "4", ":", "0", "5", ".", "1", "2", "3", "+", "0", "0", ":", "0", "0">>)>>,
         <<<<"m", "s", "g">>, JString(<<"b">>)>>,
         <<<<"c", "a", "l", "l", "e", "r">>, JString(<<"m">>)>>>>) >>

\* The lines the ingesting session builds its files from: well-formed
\* lines of every level, extra keys in two orders, unparsable timestamps,
\* unknown level tokens, and lines that do not deserialize.
LinePool ==
    << JsonObject(<<<<<<"l", "e", "v", "e", "l">>, JString(<<"I", "N", "F", "O">>)>>,
         <<<<"t", "s">>, JString(<<"2", "0", "2", "4", "-", "0", "1", "-", "0", "2", "T", "1", "5", ":", "0", "4", ":", "0", "5", ".", "1", "2", "3", "+", "0", "0", ":", "0", "0">>)>>,
         <<<<"m", "s", "g">>, JString(<<"m", "1">>)>>,
         <<<<"x">>, JNumber(<<"1">>)>>,
         <<<<"a">>, JNumber(<<"2">>)>>,
         <<<<"c", "a", "l", "l", "e", "r">>, JString(<<"c">>)>>>>),
       JsonObject(<<<<<<"a">>, JNumber(<<"2">>)>>,
         <<<<"l", "e", "v", "e", "l">>, JString(<<"D", "E", "B", "U", "G">>)>>,
         <<<<"x">>, JNumber(<<"1">>)>>,
         <<<<"t", "s">>, JString(<<"2", "0", "2", "4", "-", "0", "1", "-", "0", "2", "T", "1", "5", ":", "0", "4", ":", "0", "6", "+", "0", "1", "0", "0">>)>>,
         <<<<"m", "s", "g">>, JString(<<"m", "2">>)>>>>),
       JsonObject(<<<<<<"l", "e", "v", "e", "l">>, JString(<<"i", "n", "f", "o">>)>>,
         <<<<"t", "s">>, JString(<<"n", "o", "t", "-", "a", "-", "d", "a", "t", "e">>)>>,
         <<<<"m", "s", "g">>, JString(<<"m", "3">>)>>>>),
       JsonObject(<<<<<<"l", "e", "v", "e", "l">>, JString(<<"W", "A", "R", "N">>)>>,
         <<<<"t", "s">>, JString(<<"2", "0", "2", "4", "-", "0", "1", "-", "0", "2", "T", "1", "5", ":", "0", "4", ":", "0", "5", ".", "1", "2", "3", "+", "0", "0", ":", "0", "0">>)>>,
         <<<<"m", "s", "g">>, JString(<<"m", "4">>)>>,
         <<<<"c", "a", "l", "l", "e", "r">>, JNumber(<<"7">>)>>>>),
       NotJson,
       JsonArray,
       JsonObject(<<<<<<"l", "e", "v", "e", "l">>, JString(<<"E", "R", "R", "O", "R">>)>>,
         <<<<"t", "s">>, JString(<<"2", "0", "2", "4", "-", "0", "1", "-", "0", "2", "T", "1", "5", ":", "0", "4", ":", "0", "5", ".", "1", "2", "3", "+", "0", "0", ":", "0", "0">>)>>>>),
       JsonObject(<<<<<<"l", "e", "v", "e", "l">>, JNumber(<<"3">>)>>,
         <<<<"t", "s">>, JString(<<"2", "0", "2", "4", "-", "0", "1", "-", "0", "2", "T", "1", "5", ":", "0", "4", ":", "0", "5", ".", "1", "2", "3", "+", "0", "0", ":", "0", "0">>)>>,
         <<<<"m", "s", "g">>, JString(<<"m", "8">>)>>>>),
       JsonObject(<<<<<<"l", "e", "v", "e", "l">>, JString(<<"E", "R", "R", "O", "R">>)>>,
         <<<<"t", "s">>, JString(<<"2", "0", "2", "4", "-", "1", "3", "-", "0", "2", "T", "1", "5", ":", "0", "4", ":", "0", "5", "+", "0", "0", ":", "0", "0">>)>>,
         <<<<"m", "s", "g">>, JString(<<"m", "9">>)>>,
         <<<<"b">>, JNumber(<<"2">>)>>,
         <<<<"B">>, JNumber(<<"1">>)>>>>),
       JsonObject(<<<<<<"l", "e", "v", "e", "l">>, JString(<<"P", "A", "N", "I", "C">>)>>,
         <<<<"t", "s">>, JString(<<>>)>>,
         <<<<"m", "s", "g">>, JString(<<"m", "1", "0">>)>>>>),
       JsonObject(<<<<<<"l", "e", "v", "e", "l">>, JString(<<"W", "A", "R", "N">>)>>,
         <<<<"t", "s">>, JString(<<"2", "0", "2", "4", "-", "0", "1", "-", "0", "2", "T", "1", "5", ":", "0", "4", ":", "0", "5", ".", "1", "2", "3", "+", "0", "0", ":", "0", "0">>)>>,
         <<<<"m", "s", "g">>, JString(<<"m", "1", "1">>)>>,
         <<<<"k">>, JString(<<"v">>)>>>>),
       JsonObject(<<<<<<"l", "e", "v", "e", "l">>, JString(<< >>)>>,
         <<<<"t", "s">>, JString(<<"2", "0", "2", "4", "-", "0", "1", "-", "0", "2", "T", "1", "5", ":", "0", "4", ":", "0", "5", ".", "1", "2", "3", "+", "0", "0", ":", "0", "0">>)>>,
         <<<<"m", "s", "g">>, JString(<<"m", "1", "2">>)>>>>) >>

\* Five records, those at positions 1 and 3 with "start" in the message:
\* with Unknown levels there, and with known levels there.
FileStartUnknown ==
    << JsonObject(<<<<<<"l", "e", "v", "e", "l">>, JString(<<"I", "N", "F", "O">>)>>,
         <<<<"t", "s">>, JString(<<"2", "0", "2", "4", "-", "0", "1", "-", "0", "2", "T", "1", "5", ":", "0", "4", ":", "0", "6", "+", "0", "1", "0", "0">>)>>,
         <<<<"m", "s", "g">>, JString(<<"b", "o", "o", "t">>)>>>>),
       JsonObject(<<<<<<"l", "e", "v", "e", "l">>, JString(<<"b", "o", "g", "u", "s">>)>>,
         <<<<"t", "s">>, JString(<<"2", "0", "2", "4", "-", "0", "1", "-", "0", "2", "T", "1", "5", ":", "0", "4", ":", "0", "6", "+", "0", "1", "0", "0">>)>>,
         <<<<"m", "s", "g">>, JString(<<"s", "t", "a", "r", "t">>)>>>>),
       JsonObject(<<<<<<"l", "e", "v", "e", "l">>, JString(<<"E", "R", "R", "O", "R">>)>>,
         <<<<"t", "s">>, JString(<<"2", "0", "2", "4", "-", "0", "1", "-", "0", "2", "T", "1", "5", ":", "0", "4", ":", "0", "6", "+", "0", "1", "0", "0">>)>>,
         <<<<"m", "s", "g">>, JString(<<"r", "u", "n">>)>>>>),
       JsonObject(<<<<<<"l", "e", "v", "e", "l">>, JString(<<>>)>>,
         <<<<"t", "s">>, JString(<<"2", "0", "2", "4", "-", "0", "1", "-", "0", "2", "T", "1", "5", ":", "0", "4", ":", "0", "6", "+", "0", "1", "0", "0">>)>>,
         <<<<"m", "s", "g">>, JString(<<"R", "e", "s", "t", "a", "r", "t">>)>>>>),
       JsonObject(<<<<<<"l", "e", "v", "e", "l">>, JString(<<"D", "E", "B", "U", "G">>)>>,
         <<<<"t", "s">>, JString(<<"2", "0", "2", "4", "-", "0", "1", "-", "0", "2", "T", "1", "5", ":", "0", "4", ":", "0", "6", "+", "0", "1", "0", "0">>)>>,
         <<<<"m", "s", "g">>, JString(<<"s", "t", "o", "p">>)>>>>) >>

FileStartKnown ==
    << JsonObject(<<<<<<"l", "e", "v", "e", "l">>, JString(<<"D", "E", "B", "U", "G">>)>>,
         <<<<"t", "s">>, JString(<<"2", "0", "2", "4", "-", "0", "1", "-", "0", "2", "T", "1", "5", ":", "0", "4", ":", "0", "6", "+", "0", "1", "0", "0">>)>>,
         <<<<"m", "s", "g">>, JString(<<"b", "o", "o", "t">>)>>>>),
       JsonObject(<<<<<<"l", "e", "v", "e", "l">>, JString(<<"I", "N", "F", "O">>)>>,
         <<<<"t", "s">>, JString(<<"2", "0", "2", "4", "-", "0", "1", "-", "0", "2", "T", "1", "5", ":", "0", "4", ":", "0", "6", "+", "0", "1", "0", "0">>)>>,
         <<<<"m", "s", "g">>, JString(<<"s", "t", "a", "r", "t">>)>>>>),
       JsonObject(<<<<<<"l", "e", "v", "e", "l">>, JString(<<"b", "o", "g", "u", "s">>)>>,
         <<<<"t", "s">>, JString(<<"2", "0", "2", "4", "-", "0", "1", "-", "0", "2", "T", "1", "5", ":", "0", "4", ":", "0", "6", "+", "0", "1", "0", "0">>)>>,
         <<<<"m", "s", "g">>, JString(<<"r", "u", "n">>)>>>>),
       JsonObject(<<<<<<"l", "e", "v", "e", "l">>, JString(<<"E", "R", "R", "O", "R">>)>>,
         <<<<"t", "s">>, JString(<<"2", "0", "2", "4", "-", "0", "1", "-", "0", "2", "T", "1", "5", ":", "0", "4", ":", "0", "6", "+", "0", "1", "0", "0">>)>>,
         <<<<"m", "s", "g">>, JString(<<"R", "e", "s", "t", "a", "r", "t">>)>>>>),
       JsonObject(<<<<<<"l", "e", "v", "e", "l">>, JString(<<"W", "A", "R", "N">>)>>,
         <<<<"t", "s">>, JString(<<"2", "0", "2", "4", "-", "0", "1", "-", "0", "2", "T", "1", "5", ":", "0", "4", ":", "0", "6", "+", "0", "1", "0", "0">>)>>,
         <<<<"m", "s", "g">>, JString(<<"s", "t", "o", "p">>)>>>>) >>

Paths == {"app.log"}
\* What File::open and the read give: None when the open fails.
FileReads == {None, Some(File1), Some(File2)}

\* The sessions explored.  Each names the widgets the user operates
\* (widgets), the level buttons clicked, the texts typed into each field
\* and whether rows of the table are clicked.
Sessions ==
    {"filtering", "searching", "navigating", "selecting", "ingesting",
     "scenario"}

\* The files of the ingesting session: every sequence of at most MaxLines
\* lines of the pool.
IngestFiles ==
    UNION {[1..n -> {LinePool[i] : i \in 1..Len(LinePool)}] : n \in 0..MaxLines}

\* What a read of the picked file can give in a session.
Files(u) ==
    CASE u = "ingesting" -> {None} \cup {Some(f) : f \in IngestFiles}
      [] u = "scenario" -> {Some(FileStartUnknown), Some(FileStartKnown)}
      [] OTHER -> FileReads

\* Whether the picked file keeps its contents for the whole session (else
\* another process may rewrite it, or make it unreadable, between reads).
FileStable(u) == u = "ingesting"

FileWidgets == {"open", "reload"}

Inputs(u) ==
    CASE u = "filtering" ->
            [widgets |-> FileWidgets \cup
                         {"filter_reset", "filter_level", "filter_message",
                          "filter_payload", "filter_caller", "search_message"},
             filter_level |-> KnownLevels,
             filter_message |-> {<< >>, <<"A">>, <<"b">>},
             filter_payload |-> {<< >>, <<"X">>},
             filter_caller |-> {<< >>, <<"m">>},
             search_level |-> {},
             search_message |-> {<< >>, <<"a">>},
             search_payload |-> {},
             search_caller |-> {},
             click_rows |-> FALSE]
      [] u = "searching" ->
            [widgets |-> FileWidgets \cup
                         {"filter_message", "search_reset", "search_level",
                          "search_message", "search_payload", "search_caller"},
             filter_level |-> {},
             filter_message |-> {<< >>, <<"b">>},
             filter_payload |-> {},
             filter_caller |-> {},
             search_level |-> KnownLevels,
             search_message |-> {<< >>, <<"a">>, <<"B">>},
             search_payload |-> {<< >>, <<"2">>},
             search_caller |-> {<< >>, <<"M">>},
             click_rows |-> FALSE]
      [] u = "navigating" ->
            [widgets |-> FileWidgets \cup
                         {"filter_level", "filter_message", "search_first",
                          "search_previous", "search_next", "search_last",
                          "search_reset", "search_level", "search_message"},
             filter_level |-> {"Error"},
             filter_message |-> {<< >>, <<"b">>},
             filter_payload |-> {},
             filter_caller |-> {},
             search_level |-> {"Info", "Error"},
             search_message |-> {<< >>, <<"a">>, <<"b">>},
             search_payload |-> {},
             search_caller |-> {},
             click_rows |-> FALSE]
      [] u = "ingesting" ->
            [widgets |-> FileWidgets,
             filter_level |-> {},
             filter_message |-> {},
             filter_payload |-> {},
             filter_caller |-> {},
             search_level |-> {},
             search_message |-> {},
             search_payload |-> {},
             search_caller |-> {},
             click_rows |-> FALSE]
      [] u = "scenario" ->
            [widgets |-> {"open", "search_message", "search_next"},
             filter_level |-> {},
             filter_message |-> {},
             filter_payload |-> {},
             filter_caller |-> {},
             search_level |-> {},
             search_message |-> {<< >>, <<"s", "t", "a", "r", "t">>},
             search_payload |-> {},
             search_caller |-> {},
             click_rows |-> FALSE]
      [] u = "selecting" ->
            [widgets |-> FileWidgets \cup
                         {"filter_reset", "filter_message", "search_next",
                          "search_reset", "search_message"},
             filter_level |-> {},
             filter_message |-> {<< >>, <<"b">>},
             filter_payload |-> {},
             filter_caller |-> {},
             search_level |-> {},
             search_message |-> {<< >>, <<"a">>},
             search_payload |-> {},
             search_caller |-> {},
             click_rows |-> TRUE]

(***************************************************************************)
(* The methods of App (main.rs 349-515), each a function of the App record *)
(* giving the record after the call.                                       *)
(***************************************************************************)
AllLevels(b) == [l \in KnownLevels |-> b]

\* impl Default for App (main.rs 55-83).  The level flags are the functions
\* filter_level and search_level: filter_level["Debug"] is
\* filter_level_debug, and so on.
DefaultApp ==
    [picked_path |-> None,
     logs |-> << >>,
     filtered_logs |-> << >>,
     filter_level |-> AllLevels(TRUE),
     filter_message |-> << >>,
     filter_payload |-> << >>,
     filter_caller |-> << >>,
     search_founds |-> << >>,
     search_found_cursor |-> 0,
     search_found_scroll_row |-> None,
     search_level |-> AllLevels(FALSE),
     search_message |-> << >>,
     search_payload |-> << >>,
     search_caller |-> << >>,
     selection |-> {}]

\* The level gate of filter and search (main.rs 397-402, 440-445).
LevelGate(row, flags) ==
    \/ row.level = "Unknown"
    \/ row.level = "Debug" /\ flags["Debug"]
    \/ row.level = "Info" /\ flags["Info"]
    \/ row.level = "Warning" /\ flags["Warning"]
    \/ row.level = "Error" /\ flags["Error"]
    \/ row.level = "Panic" /\ flags["Panic"]

\* Mutant of FilterRow: the message is compared without folding the case.
FilterRow_CaseSensitive(self, row) ==
    /\ LevelGate(row, self.filter_level)
    /\ contains(row.message, self.filter_message)
    /\ contains_lowercase(row.payload, self.filter_payload)
    /\ contains_lowercase(row.caller, self.filter_caller)

\* The closure of filter (main.rs 396-407).
FilterRow(self, row) ==
    /\ LevelGate(row, self.filter_level)
    /\ contains_lowercase(row.message, self.filter_message)
    /\ contains_lowercase(row.payload, self.filter_payload)
    /\ contains_lowercase(row.caller, self.filter_caller)

\* Mutant of SearchRow: the level gate reads the flags of the filter.
SearchRow_FilterFlags(self, row) ==
    /\ LevelGate(row, self.filter_level)
    /\ contains_lowercase(row.message, self.search_message)
    /\ contains_lowercase(row.payload, self.search_payload)
    /\ contains_lowercase(row.caller, self.search_caller)

\* The test of the loop of search (main.rs 440-450).
SearchRow(self, row) ==
    /\ LevelGate(row, self.search_level)
    /\ contains_lowercase(row.message, self.search_message)
    /\ contains_lowercase(row.payload, self.search_payload)
    /\ contains_lowercase(row.caller, self.search_caller)

\* Mutant of FilterSeq: the rows kept are collected last first.
RECURSIVE FilterSeq_Reversed(_, _)
FilterSeq_Reversed(self, rows) ==
    IF rows = << >> THEN << >>
    ELSE FilterSeq_Reversed(self, Tail(rows))
         \o (IF FilterRow(self, Head(rows)) THEN <<Head(rows)>> ELSE << >>)

\* iter().filter(p).cloned().collect() (main.rs 395-409).
RECURSIVE FilterSeq(_, _)
FilterSeq(self, rows) ==
    IF rows = << >> THEN << >>
    ELSE (IF FilterRow(self, Head(rows)) THEN <<Head(rows)>> ELSE << >>)
         \o FilterSeq(self, Tail(rows))

\* Mutant of SearchFrom: the loop runs over logs, not filtered_logs.
RECURSIVE SearchFrom_OverLogs(_, _)
SearchFrom_OverLogs(self, index) ==
    IF index >= Len(self.logs) THEN << >>
    ELSE (IF SearchRow(self, self.logs[index + 1])
          THEN <<index>> ELSE << >>)
         \o SearchFrom_OverLogs(self, index + 1)

\* The loop of search over filtered_logs.iter().enumerate() (main.rs
\* 439-453), on the rows from index (0-based) on: the indices pushed.
RECURSIVE SearchFrom(_, _)
SearchFrom(self, index) ==
    IF index >= Len(self.filtered_logs) THEN << >>
    ELSE (IF SearchRow(self, self.filtered_logs[index + 1])
          THEN <<index>> ELSE << >>)
         \o SearchFrom(self, index + 1)

\* The guard of search (main.rs 426-433).
SearchIdle(self) ==
    /\ \A l \in KnownLevels : ~self.search_level[l]
    /\ self.search_message = << >>
    /\ self.search_payload = << >>
    /\ self.search_caller = << >>

\* App::search_reset (main.rs 468-478).
search_reset(self) ==
    [self EXCEPT !.search_level = AllLevels(FALSE),
                 !.search_message = << >>,
                 !.search_payload = << >>,
                 !.search_caller = << >>,
                 !.search_founds = << >>]

\* Mutant of search: no early return for an idle search.
search_NoIdleReturn(self) ==
    [self EXCEPT !.search_founds = SearchFrom(self, 0),
                 !.search_found_cursor = 0]

\* Mutant of search: the cursor is not set back to 0.
search_KeepCursor(self) ==
    IF SearchIdle(self) THEN search_reset(self)
    ELSE [self EXCEPT !.search_founds = SearchFrom(self, 0)]

\* App::search (main.rs 425-456).
search(self) ==
    IF SearchIdle(self) THEN search_reset(self)
    ELSE [self EXCEPT !.search_founds = SearchFrom(self, 0),
                      !.search_found_cursor = 0]

\* Mutant of filter: the search is not run again on the new visible set.
filter_NoSearch(self) ==
    [self EXCEPT !.filtered_logs = FilterSeq(self, self.logs)]

\* App::filter (main.rs 394-411).
filter(self) ==
    search([self EXCEPT !.filtered_logs = FilterSeq(self, self.logs)])

\* Mutant of filter_reset: the search predicates are reset as well.
filter_reset_AlsoSearch(self) ==
    filter(search_reset([self EXCEPT !.filter_level = AllLevels(TRUE),
                                     !.filter_message = << >>,
                                     !.filter_payload = << >>,
                                     !.filter_caller = << >>]))

\* App::filter_reset (main.rs 413-423).
filter_reset(self) ==
    filter([self EXCEPT !.filter_level = AllLevels(TRUE),
                        !.filter_message = << >>,
                        !.filter_payload = << >>,
                        !.filter_caller = << >>])

\* What a handler leaves: the App, and whether it panicked on the way.
Returned(a) == [app |-> a, panic |-> FALSE]
Panicked(a) == [app |-> a, panic |-> TRUE]

\* Mutant of read_file: filter() is called in place of filter_reset().
read_file_NoFilterReset(self, file) ==
    IF file = None THEN Panicked([self EXCEPT !.logs = << >>])
    ELSE Returned(filter([self EXCEPT !.logs = ParseLines(file[1])]))

\* App::read_file (main.rs 360-392) with picked_path set: the logs are
\* cleared first; a failed File::open panics in unwrap() right there.
read_file(self, file) ==
    IF file = None THEN Panicked([self EXCEPT !.logs = << >>])
    ELSE Returned(filter_reset([self EXCEPT !.logs = ParseLines(file[1])]))

\* Mutant of FoundAt: the place in the match list instead of the row found.
FoundAt_Place(self, index) ==
    IF index < Len(self.search_founds) THEN Some(index) ELSE None

\* Vec::get(index).copied() on search_founds (0-based).
FoundAt(self, index) ==
    IF index < Len(self.search_founds)
    THEN Some(self.search_founds[index + 1]) ELSE None

\* App::search_first (main.rs 480-487).
search_first(self) ==
    LET at0 == [self EXCEPT !.search_found_cursor = 0]
    IN  IF self.search_founds = << >>
        THEN [at0 EXCEPT !.search_found_scroll_row = None]
        ELSE [at0 EXCEPT !.search_found_scroll_row = FoundAt(at0, 0)]

\* Mutant of search_previous: at the first match the search is reset.
search_previous_ResetAtStart(self) ==
    IF self.search_founds = << >> \/ self.search_found_cursor <= 0
    THEN search_reset([self EXCEPT !.search_found_scroll_row = None])
    ELSE [self EXCEPT
            !.search_found_cursor = self.search_found_cursor - 1,
            !.search_found_scroll_row =
                IF self.search_found_cursor - 1 < Len(self.search_founds)
                THEN Some(self.search_founds[self.search_found_cursor])
                ELSE None]

\* App::search_previous (main.rs 489-496).
search_previous(self) ==
    IF self.search_founds = << >> \/ self.search_found_cursor <= 0
    THEN [self EXCEPT !.search_found_scroll_row = None]
    ELSE [self EXCEPT
            !.search_found_cursor = self.search_found_cursor - 1,
            !.search_found_scroll_row =
                FoundAt(self, self.search_found_cursor - 1)]

\* Mutant of search_next: past the last match it wraps to the first.
search_next_Wrap(self) ==
    IF self.search_founds = << >>
    THEN [self EXCEPT !.search_found_scroll_row = None]
    ELSE LET to == IF self.search_found_cursor >= Len(self.search_founds) - 1
                   THEN 0 ELSE self.search_found_cursor + 1
         IN  [self EXCEPT
                !.search_found_cursor = to,
                !.search_found_scroll_row = FoundAt(self, to)]

\* Mutant of search_next: the guard is > instead of >=.
search_next_OffByOne(self) ==
    IF \/ self.search_founds = << >>
       \/ self.search_found_cursor > Len(self.search_founds) - 1
    THEN [self EXCEPT !.search_found_scroll_row = None]
    ELSE [self EXCEPT
            !.search_found_cursor = self.search_found_cursor + 1,
            !.search_found_scroll_row =
                IF self.search_found_cursor + 1 < Len(self.search_founds)
                THEN Some(self.search_founds[self.search_found_cursor + 2])
                ELSE None]

\* App::search_next (main.rs 498-505).
search_next(self) ==
    IF \/ self.search_founds = << >>
       \/ self.search_found_cursor >= Len(self.search_founds) - 1
    THEN [self EXCEPT !.search_found_scroll_row = None]
    ELSE [self EXCEPT
            !.search_found_cursor = self.search_found_cursor + 1,
            !.search_found_scroll_row =
                FoundAt(self, self.search_found_cursor + 1)]

\* App::search_last (main.rs 507-514): the outcomes.  The branch for an
\* empty list does not return, so len() - 1 is computed on 0: a build with
\* overflow checks panics there, a build without them wraps to usize::MAX.
search_last(self) ==
    LET cleared == IF self.search_founds = << >>
                   THEN [self EXCEPT !.search_found_cursor = 0,
                                     !.search_found_scroll_row = None]
                   ELSE self
        last == (Len(cleared.search_founds) - 1) % (2 ^ UsizeBits)
        done == [cleared EXCEPT
                   !.search_found_cursor = last,
                   !.search_found_scroll_row = FoundAt(cleared, last)]
    IN  IF Len(cleared.search_founds) = 0
        THEN {Panicked(cleared), Returned(done)}
        ELSE {Returned(done)}

\* App::index_at_search_found_cursor (main.rs 458-466).
index_at_search_found_cursor(self, index) ==
    IF self.search_founds = << >> THEN FALSE
    ELSE IF self.search_found_cursor > Len(self.search_founds) - 1 THEN FALSE
    ELSE index = self.search_founds[self.search_found_cursor + 1]

\* Mutant of take_scroll_row: the field is read and not cleared.
take_scroll_row_Peek(self) == self

\* self.search_found_scroll_row.take() (main.rs 279): the field is left None.
take_scroll_row(self) == [self EXCEPT !.search_found_scroll_row = None]

\* Mutant of toggle_row_selection: a click selects the row alone.
toggle_row_selection_Single(self, row_index) ==
    IF row_index \in self.selection
    THEN [self EXCEPT !.selection = {}]
    ELSE [self EXCEPT !.selection = {row_index}]

\* App::toggle_row_selection (main.rs 350-358) for a clicked row.
toggle_row_selection(self, row_index) ==
    IF row_index \in self.selection
    THEN [self EXCEPT !.selection = self.selection \ {row_index}]
    ELSE [self EXCEPT !.selection = self.selection \cup {row_index}]

(***************************************************************************)
(* App::update (main.rs 86-345), one frame: the handlers of the widgets    *)
(* run in the order of the source, each when its widget was clicked or     *)
(* edited, then the table is built.  handled names the handler run last in *)
(* the frame; a widget placed earlier in update cannot run after it.  Of   *)
(* the widgets of one group at most one reports an event in a frame.       *)
(***************************************************************************)
Handlers ==
    {"none", "open", "reload", "filter_reset", "filter_level",
     "filter_message", "filter_payload", "filter_caller", "search_first",
     "search_previous", "search_next", "search_last", "search_reset",
     "search_level", "search_message", "search_payload", "search_caller"}

\* The place of a handler in update: the Open and Reload buttons (90-100),
\* the filter buttons (119-146), the filter texts (151-165), the search
\* buttons (177-191), the search levels (197-216), the search texts
\* (221-235).
Pos(h) ==
    CASE h = "none" -> 0
      [] h \in {"open", "reload"} -> 1
      [] h \in {"filter_reset", "filter_level"} -> 2
      [] h \in {"filter_message", "filter_payload", "filter_caller"} -> 3
      [] h \in {"search_first", "search_previous", "search_next",
                "search_last", "search_reset"} -> 4
      [] h = "search_level" -> 5
      [] h \in {"search_message", "search_payload", "search_caller"} -> 6

\* A handler h runs in the current frame and leaves outcome.
Run(h, outcome) ==
    /\ ~panicked
    /\ h \in Inputs(user).widgets
    /\ Pos(handled) < Pos(h)
    /\ handled' = h
    /\ app' = outcome.app
    /\ panicked' = outcome.panic
    /\ UNCHANGED <<scrolled, user>>

\* A handler that does not read the file.
Handle(h, outcome) ==
    /\ Run(h, outcome)
    /\ UNCHANGED file_read

\* What the next read of the picked file can give.
Readable ==
    IF FileStable(user) /\ app.picked_path # None THEN {file_read}
    ELSE Files(user)

\* A handler that calls read_file on self, and the file read gives file.
HandleRead(h, self, file) ==
    /\ Run(h, read_file(self, file))
    /\ file_read' = file

\* The filter and search menu is shown once a file was picked (main.rs 108).
MenuShown == app.picked_path # None

Init ==
    /\ app = DefaultApp
    /\ handled = "none"
    /\ scrolled = None
    /\ panicked = FALSE
    /\ user \in Sessions
    /\ file_read = None

\* The Open button with a file picked in the dialog (main.rs 90-95); a
\* cancelled dialog changes nothing.
Open ==
    \E path \in Paths, file \in Readable :
        HandleRead("open", [app EXCEPT !.picked_path = Some(path)], file)

\* The Reload button (main.rs 97-100).
Reload ==
    /\ app.picked_path # None
    /\ \E file \in Readable : HandleRead("reload", app, file)

\* The Reset button of the filter (main.rs 119-121).
FilterReset ==
    /\ MenuShown
    /\ Handle("filter_reset", Returned(filter_reset(app)))

\* A level button of the filter (main.rs 127-146).
FilterLevel ==
    /\ MenuShown
    /\ \E l \in Inputs(user).filter_level :
        Handle("filter_level",
               Returned(filter([app EXCEPT !.filter_level[l] = ~@])))

\* An edit of a text of the filter (main.rs 151-165).
FilterMessage ==
    /\ MenuShown
    /\ \E text \in Inputs(user).filter_message \ {app.filter_message} :
        Handle("filter_message",
               Returned(filter([app EXCEPT !.filter_message = text])))

FilterPayload ==
    /\ MenuShown
    /\ \E text \in Inputs(user).filter_payload \ {app.filter_payload} :
        Handle("filter_payload",
               Returned(filter([app EXCEPT !.filter_payload = text])))

FilterCaller ==
    /\ MenuShown
    /\ \E text \in Inputs(user).filter_caller \ {app.filter_caller} :
        Handle("filter_caller",
               Returned(filter([app EXCEPT !.filter_caller = text])))

\* The navigation buttons of the search (main.rs 177-188).
SearchFirst ==
    /\ MenuShown
    /\ Handle("search_first", Returned(search_first(app)))

SearchPrevious ==
    /\ MenuShown
    /\ Handle("search_previous", Returned(search_previous(app)))

SearchNext ==
    /\ MenuShown
    /\ Handle("search_next", Returned(search_next(app)))

SearchLast ==
    /\ MenuShown
    /\ \E outcome \in search_last(app) : Handle("search_last", outcome)

\* The Reset button of the search (main.rs 189-191).
SearchReset ==
    /\ MenuShown
    /\ Handle("search_reset", Returned(search_reset(app)))

\* A level button of the search (main.rs 197-216).
SearchLevel ==
    /\ MenuShown
    /\ \E l \in Inputs(user).search_level :
        Handle("search_level",
               Returned(search([app EXCEPT !.search_level[l] = ~@])))

\* An edit of a text of the search (main.rs 221-235).
SearchMessage ==
    /\ MenuShown
    /\ \E text \in Inputs(user).search_message \ {app.search_message} :
        Handle("search_message",
               Returned(search([app EXCEPT !.search_message = text])))

SearchPayload ==
    /\ MenuShown
    /\ \E text \in Inputs(user).search_payload \ {app.search_payload} :
        Handle("search_payload",
               Returned(search([app EXCEPT !.search_payload = text])))

SearchCaller ==
    /\ MenuShown
    /\ \E text \in Inputs(user).search_caller \ {app.search_caller} :
        Handle("search_caller",
               Returned(search([app EXCEPT !.search_caller = text])))

\* The rows a click can land on: rows of the table, up to MaxClickRow.
ClickRows ==
    {r \in 0..MaxClickRow : Inputs(user).click_rows /\ r < Len(app.filtered_logs)}

\* The table pass that ends the frame (main.rs 265-340): the pending
\* scroll row is taken and given to scroll_to_row, then the rows are built
\* and the row that was clicked, if any, toggles its selection.
Table ==
    /\ ~panicked
    /\ \E click \in {None} \cup {Some(r) : r \in ClickRows} :
        LET taken == take_scroll_row(app)
        IN  app' = IF click = None THEN taken
                   ELSE toggle_row_selection(taken, click[1])
    /\ scrolled' = app.search_found_scroll_row
    /\ handled' = "none"
    /\ UNCHANGED <<panicked, user, file_read>>

Next ==
    \/ Open
    \/ Reload
    \/ FilterReset
    \/ FilterLevel
    \/ FilterMessage
    \/ FilterPayload
    \/ FilterCaller
    \/ SearchFirst
    \/ SearchPrevious
    \/ SearchNext
    \/ SearchLast
    \/ SearchReset
    \/ SearchLevel
    \/ SearchMessage
    \/ SearchPayload
    \/ SearchCaller
    \/ Table

Spec == Init /\ [][Next]_vars

TypeOK ==
    /\ handled \in Handlers
    /\ panicked \in BOOLEAN
    /\ Len(scrolled) <= 1
    /\ app.search_found_cursor \in 0..UsizeMax

(***************************************************************************)
(* The engine as the specification describes it (spec.md 3, 4.4, 4.5),     *)
(* stated on its own so that the stored state can be compared with it.     *)
(***************************************************************************)
Range(seq) == {seq[i] : i \in 1..Len(seq)}

\* levelOk: the level is Unknown or its flag is set.
LevelOk(record, flags) ==
    record.level = "Unknown" \/ (record.level \in KnownLevels /\ flags[record.level])

\* containsCI: some window of the text equals the pattern up to case.
ContainsCI(text, pattern) ==
    \E from \in 1..(Len(text) + 1) :
        /\ from + Len(pattern) - 1 <= Len(text)
        /\ to_lowercase(SubSeq(text, from, from + Len(pattern) - 1))
               = to_lowercase(pattern)

Passes(record, flags, message, payload, caller) ==
    /\ LevelOk(record, flags)
    /\ ContainsCI(record.message, message)
    /\ ContainsCI(record.payload, payload)
    /\ ContainsCI(record.caller, caller)

PassesFilter(record) ==
    Passes(record, app.filter_level, app.filter_message, app.filter_payload,
           app.filter_caller)

PassesSearch(record) ==
    Passes(record, app.search_level, app.search_message, app.search_payload,
           app.search_caller)

\* visible(LogStore, FilterState)
Visible == SelectSeq(app.logs, PassesFilter)

Idle ==
    /\ app.search_level = [l \in KnownLevels |-> FALSE]
    /\ app.search_message = << >>
    /\ app.search_payload = << >>
    /\ app.search_caller = << >>

\* The indices (0-based) of the rows of a visible set that pass the search.
MatchSet(visible) ==
    {i \in 0..(Len(visible) - 1) : PassesSearch(visible[i + 1])}

StrictlyIncreasing(seq) ==
    \A i, j \in 1..Len(seq) : i < j => seq[i] < seq[j]

\* seq is matches(visible, SearchState): nothing when the search is idle,
\* else the indices of MatchSet in ascending order.
IsMatches(seq, visible) ==
    IF Idle THEN seq = << >>
    ELSE StrictlyIncreasing(seq) /\ Range(seq) = MatchSet(visible)

Recomputing ==
    {"open", "reload", "filter_reset", "filter_level", "filter_message",
     "filter_payload", "filter_caller", "search_reset", "search_level",
     "search_message", "search_payload", "search_caller"}

Navigating == {"search_first", "search_previous", "search_next", "search_last"}

Cursor == app.search_found_cursor
Founds == app.search_founds

(***************************************************************************)
(* C1.  After every completed operation the stored visible set is          *)
(* visible(LogStore, FilterState) and the stored match list is             *)
(* matches(visible set, SearchState): no stale derived state.  (A handler  *)
(* that panicked did not complete.)                                        *)
(***************************************************************************)
C1_DerivedStateFresh ==
    ~panicked =>
        /\ app.filtered_logs = Visible
        /\ IsMatches(app.search_founds, Visible)

\* A filter change with an active search: the visible set shrank and the
\* matches were recomputed on it.
C1_Witness ==
    /\ handled = "filter_message"
    /\ Len(app.filtered_logs) < Len(app.logs)
    /\ \E k \in 1..Len(app.search_founds) : app.search_founds[k] >= 1

(***************************************************************************)
(* C2.  A record of the Log Store is in the visible set iff its level is   *)
(* Unknown or its level flag is set, and its message, payload and caller   *)
(* contain the three filter texts, case-insensitively.                     *)
(***************************************************************************)
C2_FilterConjunctive ==
    ~panicked =>
        \A i \in 1..Len(app.logs) :
            app.logs[i] \in Range(app.filtered_logs) <=> PassesFilter(app.logs[i])

\* An Unknown record is visible with all five flags off while a record of
\* a known level is hidden; and a text typed in another case matched.
C2_Witness ==
    /\ app.filter_level = [l \in KnownLevels |-> FALSE]
    /\ app.filter_message = <<"A">>
    /\ \E r \in Range(app.filtered_logs) :
          r.level = "Unknown" /\ r.message = <<"a", "b">>
    /\ \E r \in Range(app.logs) : r.level # "Unknown" /\ r.message = <<"a">>

(***************************************************************************)
(* C3.  With a search that is not idle, the match list is the ascending    *)
(* list of the visible-set indices whose row passes the level gate and the *)
(* three text gates of the SearchState.                                    *)
(***************************************************************************)
C3_SearchMatches ==
    (~panicked /\ ~Idle) =>
        /\ StrictlyIncreasing(app.search_founds)
        /\ Range(app.search_founds) = MatchSet(app.filtered_logs)

\* The visible set is a proper part of the Log Store, a row passing the
\* search was filtered out, and the match found is not at its Log Store index.
C3_Witness ==
    /\ ~Idle
    /\ handled = "search_level"
    /\ Len(app.filtered_logs) < Len(app.logs)
    /\ app.search_founds # << >>
    /\ \E i \in 1..Len(app.logs) :
          /\ PassesSearch(app.logs[i])
          /\ app.logs[i] \notin Range(app.filtered_logs)
    /\ \E k \in 1..Len(app.search_founds) :
          app.logs[app.search_founds[k] + 1]
              # app.filtered_logs[app.search_founds[k] + 1]

(***************************************************************************)
(* C4.  Idle search yields no matches: with all five search flags off and  *)
(* the three search texts empty the match list is empty, whatever the      *)
(* visible set holds.                                                      *)
(***************************************************************************)
C4_IdleNoMatches ==
    Idle => app.search_founds = << >>

\* The search was made idle again by an edit, over a visible set with an
\* Unknown record (which the level gate alone would match).
C4_Witness ==
    /\ handled = "search_message"
    /\ Idle
    /\ \E r \in Range(app.filtered_logs) : r.level = "Unknown"

(***************************************************************************)
(* C5.  Cursor range: when the match list is not empty,                    *)
(* 0 <= cursor < len(matches).                                             *)
(***************************************************************************)
C5_CursorInRange ==
    app.search_founds # << >> =>
        Cursor >= 0 /\ Cursor < Len(app.search_founds)

\* The cursor stands on the last of three matches.
C5_Witness ==
    /\ Len(app.search_founds) = 3
    /\ Cursor = 2

(***************************************************************************)
(* C6.  The cursor is 0 after every recomputation of the search result:    *)
(* after a filter change, a search change, a search reset, a load or a     *)
(* reload has completed, cursor = 0; hence cursor = 0 whenever the match   *)
(* list is empty.  Stated for every cursor but usize::MAX, the value that  *)
(* search_last leaves on an empty list (C8).                               *)
(***************************************************************************)
C6_CursorZeroAfterRecompute ==
    Cursor # UsizeMax =>
        /\ (~panicked /\ handled \in Recomputing) => Cursor = 0
        /\ Founds = << >> => Cursor = 0

(***************************************************************************)
(* C7.  Navigation bounds: next adds exactly 1 to the cursor when          *)
(* cursor < len(matches) - 1, previous subtracts exactly 1 when            *)
(* cursor > 0, and otherwise (last match, first match, empty list) the     *)
(* cursor is unchanged; on a non-empty list the cursor stays within        *)
(* [0, len(matches) - 1].                                                  *)
(***************************************************************************)
C7_NavigationBounds ==
    [][/\ handled' = "search_next" =>
            /\ Cursor' = IF Founds # << >> /\ Cursor < Len(Founds) - 1
                         THEN Cursor + 1 ELSE Cursor
            /\ Founds # << >> => Cursor' \in 0..(Len(Founds) - 1)
       /\ handled' = "search_previous" =>
            /\ Cursor' = IF Founds # << >> /\ Cursor > 0
                         THEN Cursor - 1 ELSE Cursor
            /\ Founds # << >> => Cursor' \in 0..(Len(Founds) - 1)
      ]_vars

\* next was clicked on the last of several matches and did nothing.
C7_Witness ==
    /\ handled = "search_next"
    /\ Len(Founds) >= 2
    /\ Cursor = Len(Founds) - 1
    /\ app.search_found_scroll_row = None

(***************************************************************************)
(* C8.  last sets the cursor to len(matches) - 1 on a non-empty list; on   *)
(* an empty list it completes with cursor = 0 and no scroll target.        *)
(***************************************************************************)
C8_LastClamped ==
    handled = "search_last" =>
        /\ ~panicked
        /\ Cursor = IF Founds = << >> THEN 0 ELSE Len(Founds) - 1
        /\ Founds = << >> => app.search_found_scroll_row = None

(***************************************************************************)
(* C9.  Scroll target: a first or last on a non-empty list, and a next or  *)
(* previous that moves the cursor, set the scroll target to                *)
(* matches[new cursor]; a navigation that does nothing or runs on an empty *)
(* list sets it to none.                                                   *)
(***************************************************************************)
C9_ScrollTarget ==
    [][handled' \in Navigating =>
         app'.search_found_scroll_row =
            IF /\ Founds # << >>
               /\ \/ handled' \in {"search_first", "search_last"}
                  \/ Cursor' # Cursor
            THEN Some(Founds[Cursor' + 1])
            ELSE None
      ]_vars

\* previous moved the cursor to a match whose visible-set index is not its
\* place in the match list.
C9_Witness ==
    /\ handled = "search_previous"
    /\ app.search_found_scroll_row # None
    /\ app.search_found_scroll_row = Some(Founds[Cursor + 1])
    /\ Founds[Cursor + 1] # Cursor

FilterState ==
    <<app.filter_level, app.filter_message, app.filter_payload,
      app.filter_caller>>

SearchState ==
    <<app.search_level, app.search_message, app.search_payload,
      app.search_caller>>

DefaultFilterState ==
    <<[l \in KnownLevels |-> TRUE], << >>, << >>, << >>>>

Loading == {"open", "reload"}

FilterChange ==
    {"filter_reset", "filter_level", "filter_message", "filter_payload",
     "filter_caller"}

SearchChange ==
    {"search_reset", "search_level", "search_message", "search_payload",
     "search_caller"}

(***************************************************************************)
(* C11.  Reload clears the Selection: after a load or a reload has         *)
(* completed the selection set is empty.                                   *)
(***************************************************************************)
C11_ReloadClearsSelection ==
    (handled \in Loading /\ ~panicked) => app.selection = {}

(***************************************************************************)
(* C12.  A successful load or reload leaves the filter at its defaults     *)
(* (five flags set, three texts empty), the visible set equal to the new   *)
(* Log Store, and the eight fields of the SearchState as they were.        *)
(***************************************************************************)
C12_LoadResetsFilterKeepsSearch ==
    [][(handled' \in Loading /\ ~panicked') =>
          /\ FilterState' = DefaultFilterState
          /\ app'.filtered_logs = app'.logs
          /\ SearchState' = SearchState
      ]_vars

\* A reload with a search in force: the search texts are still there and
\* matches were found in the new visible set.
C12_Witness ==
    /\ handled = "reload"
    /\ ~panicked
    /\ app.search_message # << >>
    /\ app.search_level # [l \in KnownLevels |-> FALSE]
    /\ Founds # << >>
    /\ app.filtered_logs = app.logs

(***************************************************************************)
(* C13.  A failed open is atomic: the Log Store, the visible set and the   *)
(* match list are then all as before the attempt or all empty, never an    *)
(* emptied Log Store beside the previous visible set and match list.       *)
(***************************************************************************)
C13_OpenFailureAtomic ==
    [][(handled' \in Loading /\ panicked') =>
          \/ /\ app'.logs = app.logs
             /\ app'.filtered_logs = app.filtered_logs
             /\ app'.search_founds = app.search_founds
          \/ /\ app'.logs = << >>
             /\ app'.filtered_logs = << >>
             /\ app'.search_founds = << >>
      ]_vars

(***************************************************************************)
(* C18.  The selection survives filter and search changes: no handler of   *)
(* the filter, the search or the navigation changes the selection set; a   *)
(* click on row i flips the membership of i and of nothing else.           *)
(***************************************************************************)
C18_SelectionFrame ==
    [][\/ app'.selection = app.selection
       \/ /\ handled' = "none"
          /\ \E i \in 0..(Len(app.filtered_logs) - 1) :
                app'.selection =
                    IF i \in app.selection THEN app.selection \ {i}
                    ELSE app.selection \cup {i}
      ]_vars

\* A filter edit shrank the visible set below a row that stays selected.
C18_Witness ==
    /\ handled = "filter_message"
    /\ app.selection = {0, 1}
    /\ Len(app.filtered_logs) < Len(app.logs)

(***************************************************************************)
(* C19.  A search change (flag, text, reset) leaves the Log Store, the     *)
(* FilterState and the visible set unchanged; a filter change leaves the   *)
(* Log Store and the eight fields of the SearchState unchanged.            *)
(***************************************************************************)
C19_ChangeFrames ==
    [][/\ handled' \in SearchChange =>
            /\ app'.logs = app.logs
            /\ FilterState' = FilterState
            /\ app'.filtered_logs = app.filtered_logs
       /\ handled' \in FilterChange =>
            /\ app'.logs = app.logs
            /\ SearchState' = SearchState
      ]_vars

\* A filter reset with a search in force: the matches were recomputed and
\* the search predicates are still set.
C19_Witness ==
    /\ handled = "filter_reset"
    /\ app.search_message # << >>
    /\ Founds # << >>

(***************************************************************************)
(* C20.  Navigation changes only the cursor and the scroll target: first,  *)
(* previous, next and last leave the Log Store, the FilterState, the       *)
(* visible set, the SearchState and the match list unchanged, with an      *)
(* empty match list too.                                                   *)
(***************************************************************************)
C20_NavigationFrame ==
    [][handled' \in Navigating =>
          /\ app'.logs = app.logs
          /\ FilterState' = FilterState
          /\ app'.filtered_logs = app.filtered_logs
          /\ SearchState' = SearchState
          /\ app'.search_founds = app.search_founds
          /\ app'.selection = app.selection
          /\ app'.picked_path = app.picked_path
      ]_vars

\* previous was clicked on the first of several matches.
C20_Witness ==
    /\ handled = "search_previous"
    /\ Len(Founds) >= 2
    /\ Cursor = 0
    /\ app.search_found_scroll_row = None
    /\ ~Idle

(***************************************************************************)
(* Ingestion, stated on the lines the last read gave and the Log Store.    *)
(***************************************************************************)
\* A read has succeeded and the Log Store holds what it produced.
Ingested == ~panicked /\ file_read # None

Lines == file_read[1]

\* The line is a JSON object with string fields level, ts and msg.
HasRequired(line) ==
    /\ line.json = "object"
    /\ \A key \in {KeyLevel, KeyTs, KeyMsg} :
          \E i \in 1..Len(line.members) :
              line.members[i][1] = key /\ line.members[i][2].t = "string"

\* ... and its caller, when there is one, is a string too.
Decodes(line) ==
    /\ HasRequired(line)
    /\ \A i \in 1..Len(line.members) :
          line.members[i][1] = KeyCaller => line.members[i][2].t = "string"

\* The lines that yield a record.
Kept == SelectSeq(Lines, Decodes)

\* The text of a field of a line.
Field(line, key) == Member(line.members, key).v

\* The store has one record per line of kept, in order: the record of a
\* line carries the msg of the line, and the level, time, payload and
\* caller made from the line.
OneRecordPerLine(kept) ==
    /\ Len(app.logs) = Len(kept)
    /\ \A i \in 1..Len(kept) : app.logs[i] = LogOf(kept[i])

\* Claim C14 as stated: after a read, the Log Store holds exactly one
\* record per line that is a JSON object with string fields level, ts and
\* msg, in line order (a line whose caller is a number refutes it: it has
\* the three fields and is dropped).
C14_OneRecordPerRequiredLine ==
    Ingested => OneRecordPerLine(SelectSeq(Lines, HasRequired))

\* Claim C14, amended: after a read, the Log Store holds exactly one record
\* per line that is a JSON object with string fields level, ts and msg and
\* whose caller, when present, is a string, in line order; every other line
\* is dropped and the lines after it are still processed.
C14_OneRecordPerDecodedLine ==
    Ingested => OneRecordPerLine(Kept)

\* A line that does not decode is followed by one that does, and the record
\* of the latter is in the store.
C14_Witness ==
    /\ Ingested /\ handled = "open" /\ user = "ingesting"
    /\ Len(Lines) = 2 /\ ~Decodes(Lines[1]) /\ Decodes(Lines[2])
    /\ Len(app.logs) = 1
    /\ app.logs[1].message = Field(Lines[2], KeyMsg)

\* The five known tokens and the level of each.
TokenLevel ==
    {<<<<"D", "E", "B", "U", "G">>, "Debug">>,
     <<<<"I", "N", "F", "O">>, "Info">>,
     <<<<"W", "A", "R", "N">>, "Warning">>,
     <<<<"E", "R", "R", "O", "R">>, "Error">>,
     <<<<"P", "A", "N", "I", "C">>, "Panic">>}

\* A ts that cannot have the layout: too short for date, T and time, a
\* separator missing, or a month that does not exist.
Unparsable(ts) ==
    \/ Len(ts) < 20
    \/ <<ts[5], ts[8], ts[11], ts[14], ts[17]>> # <<"-", "-", "T", ":", ":">>
    \/ ~(IsDigit(ts[6]) /\ IsDigit(ts[7]))
    \/ Number(ts, 6, 7) \notin 1..12

\* Claim C15: a line with the required fields is never dropped for its
\* level or ts: its record has the level of its token when the token is one
\* of the five (each its own level), level Unknown otherwise, and the
\* default timestamp when its ts does not parse.
C15_FieldDegradation ==
    Ingested =>
        /\ Len(app.logs) = Len(Kept)
        /\ \A i \in 1..Len(Kept) :
              LET token == Field(Kept[i], KeyLevel)
                  record == app.logs[i]
              IN  /\ record.message = Field(Kept[i], KeyMsg)
                  /\ \A tl \in TokenLevel :
                        (token = tl[1]) <=> (record.level = tl[2])
                  /\ (\A tl \in TokenLevel : token # tl[1])
                        => record.level = "Unknown"
                  /\ Unparsable(Field(Kept[i], KeyTs))
                        => record.time = DefaultTime

\* A lowercase token and an unparsable ts gave an Unknown record at the
\* default time, next to a record of a known token.
C15_Witness ==
    /\ Ingested /\ handled \in Loading /\ user = "ingesting"
    /\ Len(Kept) = 2 /\ Len(app.logs) = 2
    /\ Field(Kept[1], KeyLevel) = <<"i", "n", "f", "o">>
    /\ Unparsable(Field(Kept[1], KeyTs))
    /\ app.logs[1].level = "Unknown" /\ app.logs[1].time = DefaultTime
    /\ app.logs[2].level = "Panic" /\ app.logs[2].time = DefaultTime

\* The extra key/value pairs of a line, as a set, and the extra keys in the
\* order the line gives them.
Extras(line) ==
    {<<k, Member(line.members, k)>> : k \in PayloadKeys(line)}

ExtraOrder(line) ==
    LET keys == [i \in 1..Len(line.members) |-> line.members[i][1]]
        extra(k) == k \notin {KeyLevel, KeyTs, KeyMsg, KeyCaller}
    IN  SelectSeq(keys, extra)

\* Where the key starts in the payload text (0 when it is not there).
KeyAt(payload, key) ==
    LET pat == <<"\"">> \o key \o <<"\"", ":">>
        at == {i \in 1..Len(payload) :
                 /\ i + Len(pat) - 1 <= Len(payload)
                 /\ SubSeq(payload, i, i + Len(pat) - 1) = pat}
    IN  IF at = {} THEN 0 ELSE CHOOSE i \in at : \A j \in at : i <= j

\* Claim C16: two lines with the same set of extra key/value pairs have the
\* same payload string whatever the order of the keys in the lines; every
\* extra key is in the payload and the keys are in ascending ordinal order;
\* a line with no extra key has the empty payload, not "{}".
C16_PayloadOrderIndependent ==
    Ingested =>
        /\ Len(app.logs) = Len(Kept)
        /\ \A i, j \in 1..Len(Kept) :
              Extras(Kept[i]) = Extras(Kept[j])
                  => app.logs[i].payload = app.logs[j].payload
        /\ \A i \in 1..Len(Kept) :
              LET payload == app.logs[i].payload
                  keys == PayloadKeys(Kept[i])
              IN  /\ keys = {} <=> payload = << >>
                  /\ \A k \in keys : KeyAt(payload, k) > 0
                  /\ \A k1, k2 \in keys :
                        StrLess(k1, k2)
                            => KeyAt(payload, k1) < KeyAt(payload, k2)

\* Two lines gave the same extras in different key order and their records
\* have one and the same non-empty payload.
C16_Witness ==
    /\ Ingested /\ handled \in Loading /\ user = "ingesting"
    /\ Len(Kept) = 2 /\ Len(app.logs) = 2
    /\ Extras(Kept[1]) = Extras(Kept[2])
    /\ ExtraOrder(Kept[1]) # ExtraOrder(Kept[2])
    /\ app.logs[1].payload = app.logs[2].payload
    /\ app.logs[1].payload # << >>

(***************************************************************************)
(* The search scenario: five visible records, "start" in the messages of   *)
(* those at positions 1 and 3, and a search for "start" alone.             *)
(***************************************************************************)
Start == <<"s", "t", "a", "r", "t">>

\* The positions of the visible records with "start" in the message.
StartRows(a) ==
    {i \in 0..(Len(a.filtered_logs) - 1) :
        ContainsCI(a.filtered_logs[i + 1].message, Start)}

\* The scenario holds of the App a, whatever the levels of the records.
Scenario(a) ==
    /\ a.search_message = Start
    /\ a.search_level = [l \in KnownLevels |-> FALSE]
    /\ a.search_payload = << >> /\ a.search_caller = << >>
    /\ Len(a.filtered_logs) = 5
    /\ StartRows(a) = {1, 3}

\* ... and the records at positions 1 and 3 have level Unknown.
ScenarioUnknown(a) ==
    /\ Scenario(a)
    /\ \A i \in {1, 3} : a.filtered_logs[i + 1].level = "Unknown"

\* What the scenario promises of a step, for the Apps that satisfy P: the
\* matches are [1,3], with cursor 0 once they are computed; next from
\* cursor 0 gives cursor 1 and scroll target 3; next from cursor 1 changes
\* nothing.
ScenarioSteps(P(_)) ==
    /\ P(app') => app'.search_founds = <<1, 3>>
    /\ (P(app') /\ handled' \in Recomputing) => app'.search_found_cursor = 0
    /\ (P(app) /\ handled' = "search_next" /\ Cursor = 0) =>
          /\ app'.search_found_cursor = 1
          /\ app'.search_found_scroll_row = Some(3)
    /\ (P(app) /\ handled' = "search_next" /\ Cursor = 1) =>
          app' = [app EXCEPT !.search_found_scroll_row = None]

\* Claim C17 as stated: the scenario gives matches [1,3], cursor 0, then
\* cursor 1 with scroll target 3, then a no-op, whatever the levels of the
\* records (records 1 and 3 of a known level refute it: with every search
\* level flag false they do not pass the level gate and match nothing).
C17_ScenarioAnyLevels == [][ScenarioSteps(Scenario)]_vars

\* Claim C17, amended: when the records at positions 1 and 3 have level
\* Unknown, the scenario gives matches [1,3] and cursor 0; next gives
\* cursor 1 and scroll target 3; a second next leaves cursor 1 and
\* everything else as it was.
C17_ScenarioUnknownLevels == [][ScenarioSteps(ScenarioUnknown)]_vars

\* The second next has run: the cursor is still 1 and nothing is to scroll.
C17_Witness ==
    /\ handled = "search_next" /\ ScenarioUnknown(app)
    /\ Founds = <<1, 3>> /\ Cursor = 1
    /\ app.search_found_scroll_row = None /\ scrolled = Some(3)

(***************************************************************************)
(* C21.  A pending scroll target is always a valid row: in every reachable *)
(* state, a pending scroll target is below the length of the visible set   *)
(* and equals matches[cursor], so no recomputation leaves a stale target   *)
(* of an earlier navigation to the next table pass.  The code refutes it:  *)
(* a search level or search text handler that runs after a navigation      *)
(* button in the same update recomputes the matches and leaves the target. *)
(***************************************************************************)
Pending == app.search_found_scroll_row # None

C21_PendingScrollValid ==
    Pending =>
        /\ app.search_found_scroll_row[1] < Len(app.filtered_logs)
        /\ Cursor < Len(Founds)
        /\ app.search_found_scroll_row[1] = Founds[Cursor + 1]

(***************************************************************************)
(* C22.  Match indices are always valid and ordered: in every reachable    *)
(* state the match list is strictly increasing and every element is below  *)
(* the length of the visible set, so matches[cursor], where the cursor is  *)
(* in the list, is a row of the visible set.                               *)
(***************************************************************************)
C22_MatchIndicesValid ==
    /\ StrictlyIncreasing(Founds)
    /\ \A k \in 1..Len(Founds) : Founds[k] < Len(app.filtered_logs)
    /\ Cursor < Len(Founds) => Founds[Cursor + 1] < Len(app.filtered_logs)

\* A filter change has just shrunk the visible set and the matches, two or
\* more, end at its last row.
C22_Witness ==
    /\ handled \in FilterChange /\ ~panicked
    /\ Len(app.filtered_logs) < Len(app.logs)
    /\ Len(Founds) >= 2
    /\ Founds[Len(Founds)] = Len(app.filtered_logs) - 1

(***************************************************************************)
(* C23.  The visible set is an order-preserving subsequence of the Log     *)
(* Store in every state of the running program: it is the store reduced to *)
(* some set of its positions, in the order of the store, each position     *)
(* used at most once; so the filtered count never exceeds the total count. *)
(***************************************************************************)
\* The elements of seq at the positions of keep, in the order of seq.
Pick(seq, keep) ==
    LET places == [i \in 1..Len(seq) |-> i]
        kept(i) == i \in keep
        at == SelectSeq(places, kept)
    IN  [k \in 1..Len(at) |-> seq[at[k]]]

C23_VisibleSubsequence ==
    ~panicked =>
        /\ \E keep \in SUBSET (1..Len(app.logs)) :
              app.filtered_logs = Pick(app.logs, keep)
        /\ Len(app.filtered_logs) <= Len(app.logs)

\* A filter text has left the first record and the last two of four.
C23_Witness ==
    /\ handled = "filter_message" /\ ~panicked
    /\ Len(app.logs) = 4
    /\ app.filtered_logs = <<app.logs[1], app.logs[3], app.logs[4]>>
    /\ app.logs[2] \notin Range(app.filtered_logs)

====
